---- MODULE Spec2Model ----
\* A model of easycurses (src/src/lib.rs): the process-wide session flag
\* curses_is_on, EasyCurses::initialize_system, Drop for EasyCurses,
\* preserve_panic_message and the ColorPair identity scheme.
\*
\* Threads interleave at the granularity of the statements that touch shared
\* state: the compare_and_swap on the flag, each call into the curses
\* provider, and the store of the flag in drop.  The provider (pancurses) is
\* an external collaborator; it is represented by the number of initscr and
\* endwin calls it has received, the colour pairs registered with init_pair
\* and the last call made through a method of the handle.
EXTENDS Integers, Sequences, FiniteSets, TLC

\* ---------------------------------------------------------------- bounds
NumThreads == 2
MaxSessions == 2
MaxMade == 2
MaxDim == 2

Threads == 1..NumThreads

\* preserve_panic_message wraps the whole use of curses of a program
\* (examples/preserve_panic_message.rs): it is called from the main thread;
\* the other threads contend for the session through initialize_system.
MainThread == 1

\* ------------------------------------------------------------ arithmetic
\* `expr as i16`: keep the low 16 bits, two's complement.
AsI16(n) ==
  LET m == n % 65536 IN IF m >= 32768 THEN m - 65536 ELSE m

\* pancurses::OK and pancurses::ERR
OK == 0
ERR == -1

to_bool(curses_bool) == curses_bool = OK

\* ---------------------------------------------------------------- colours
color_iterator ==
  <<"Black", "Red", "Green", "Yellow", "Blue", "Magenta", "Cyan", "White">>

Color == {color_iterator[i] : i \in 1..Len(color_iterator)}

color_to_i16(color) ==
  CASE color = "Black" -> 0
    [] color = "Red" -> 1
    [] color = "Green" -> 2
    [] color = "Yellow" -> 3
    [] color = "Blue" -> 4
    [] color = "Magenta" -> 5
    [] color = "Cyan" -> 6
    [] color = "White" -> 7

\* Option<Color>: "None" or the colour.
i16_to_color(val) ==
  CASE val = 0 -> "Black"
    [] val = 1 -> "Red"
    [] val = 2 -> "Green"
    [] val = 3 -> "Yellow"
    [] val = 4 -> "Blue"
    [] val = 5 -> "Magenta"
    [] val = 6 -> "Cyan"
    [] val = 7 -> "White"
    [] OTHER -> "None"

fgbg_pairid_no_offset(fg, bg) == AsI16(8 * fg + bg)

fgbg_pairid(fg, bg) == AsI16(1 + AsI16(AsI16(8 * fg) + bg))

ColorPair_new(fg, bg) ==
  LET fgi == color_to_i16(fg)
      bgi == color_to_i16(bg)
  IN fgbg_pairid(fgi, bgi)

ColorPair_default_swapped == ColorPair_new("Black", "White")

ColorPair_default == ColorPair_new("White", "Black")

\* ------------------------------------------------- the terminal and build
\* What the provider reports about the terminal: has_colors(), the status
\* of start_color(), COLORS() and COLOR_PAIRS().  They are properties of the
\* terminal the process runs on and do not change during a run.
ColorTerminals == {<<8, 64>>, <<256, 32767>>, <<256, 65536>>}

Terminals ==
  {[has_colors |-> FALSE, start_color |-> ERR, COLORS |-> 0, COLOR_PAIRS |-> 0],
   [has_colors |-> TRUE, start_color |-> ERR, COLORS |-> 0, COLOR_PAIRS |-> 0]}
  \cup
  {[has_colors |-> TRUE, start_color |-> OK, COLORS |-> cp[1],
    COLOR_PAIRS |-> cp[2]] : cp \in ColorTerminals}

\* ------------------------------------------------------- panics, results
\* A panic payload is a Box<Any>: its dynamic type and its content.
DoubleInit_opaque == [type |-> "()", text |-> ""]

DoubleInit == [type |-> "String", text |-> "Curses double-initialization."]
ColorIdsPanic == [type |-> "String", text |-> "Curses reported too few color ids"]
PairIdsPanic == [type |-> "String", text |-> "Curses reported too few colorpair ids"]

UserPayloads ==
  {[type |-> "&str", text |-> "oh no"],
   [type |-> "String", text |-> "bad state"],
   [type |-> "i32", text |-> "42"]}

UserValues == {"r1", "r2"}

\* How the code holding the handle leaves the handle's scope.
Exits ==
  {[kind |-> "return", type |-> "R", text |-> r] : r \in UserValues}
  \cup
  {[kind |-> "panic", type |-> p.type, text |-> p.text] : p \in UserPayloads}

NoExit == [kind |-> "none", type |-> "", text |-> ""]

Panic(p) == [kind |-> "panic", type |-> p.type, text |-> p.text]

NoRet == [tag |-> "NoRet", val |-> ""]
Ret(tag, val) == [tag |-> tag, val |-> val]

\* win names the window by the number of the initscr call that returned it.
NoHandle ==
  [live |-> FALSE, win |-> 0, color_support |-> FALSE, auto_resize |-> FALSE]

Methods == {"move_rc", "print_char", "get_input"}

\* A call through a method: the function, and how many initscr and endwin
\* calls the provider had received after the initscr that returned the
\* handle's window when the call was made.
NoCall == [fn |-> "none", initscrs_since |-> 0, endwins_since |-> 0]

VARIABLES
  curses_is_on,    \* the static AtomicBool
  debug_assertions,\* whether debug_assert! is compiled in
  term,            \* what the provider reports about the terminal
  aborted,         \* the process was aborted without unwinding
  pc,              \* each thread's position
  frame,           \* "direct": the thread called initialize_system itself;
                   \* "wrapper": it is inside preserve_panic_message
  w,               \* the local w of initialize_system
  color_support,   \* the local color_support of initialize_system
  handle,          \* the EasyCurses value each thread owns
  exit,            \* how the code holding the handle left its scope, or the
                   \* panic in flight
  result,          \* what the thread's last call returned
  initscr_calls,   \* provider: number of initscr calls
  endwin_calls,    \* provider: number of endwin calls
  pairs,           \* provider: pair id -> <<fg, bg>> set by init_pair
  last_call,       \* provider: the last call made through a handle method
  made,            \* ColorPair values constructed so far
  conv,            \* the last colour <-> i16 conversion
  scr,             \* provider: the window's size and cursor (row, col)
  moved,           \* the last move_rc / move_xy call and what it returned
  got,             \* the last get_cursor_rc / get_cursor_xy since that move
  delay,           \* the last set_input_timeout and what timeout() received
  curs,            \* provider: cursor mode; the last set_cursor_visibility
  tty,             \* provider: input flags; the last set_input_mode
  inp,             \* the last get_input: the event, the resize call, the result
  attr             \* the last is_color_terminal / set_color_pair

envVars == <<debug_assertions, term>>

colorVars == <<made, conv>>

cursorVars == <<scr, moved, got>>

configVars == <<delay, curs, tty>>

ioVars == <<inp, attr>>

methodVars == <<cursorVars, configVars, ioVars>>

vars ==
  <<curses_is_on, debug_assertions, term, aborted, pc, frame, w, color_support,
    handle, exit, result, initscr_calls, endwin_calls, pairs, last_call,
    made, conv, scr, moved, got, delay, curs, tty, inp, attr>>

NoConv == [color |-> "None", i16 |-> -1, back |-> "None"]

InitColorVars ==
  /\ made = {}
  /\ conv = NoConv

NoMove == [fn |-> "none", a |-> 0, b |-> 0, rows |-> 0, ret |-> "none"]

NoGet == [fn |-> "none", a |-> 0, b |-> 0, rows |-> 0]

\* The window initscr returns covers the terminal: rows x cols cells, the
\* cursor in the top left corner.
Window(rows, cols) == [rows |-> rows, cols |-> cols, row |-> 0, col |-> 0]

InitCursorVars ==
  /\ scr = Window(1, 1)
  /\ moved = NoMove
  /\ got = NoGet

\* No set_input_timeout yet: the window waits without limit (-1).
NoTimeout == [mode |-> "none", n |-> 0, arg |-> -1]

CursorVisibility == {"Invisible", "Visible", "HighlyVisible"}

\* The default CursorVisibility is Visible.
CursorVisibility_default == "Visible"

\* The provider's code of a visibility (the first match of
\* set_cursor_visibility)
vis_code_reversed(vis) ==
  CASE vis = "Invisible" -> 2
    [] vis = "Visible" -> 1
    [] vis = "HighlyVisible" -> 0

vis_code(vis) ==
  CASE vis = "Invisible" -> 0
    [] vis = "Visible" -> 1
    [] vis = "HighlyVisible" -> 2

\* and the Option a result of curs_set becomes (the second match).
vis_of_result(res) ==
  CASE res = 0 -> "Invisible"
    [] res = 1 -> "Visible"
    [] res = 2 -> "HighlyVisible"
    [] OTHER -> "None"

\* The cursor modes the terminal can do, the mode it is in, and the last
\* set_cursor_visibility: its argument and its result.
NoCurs(supported) ==
  [supported |-> supported, vis |-> vis_code(CursorVisibility_default),
   asked |-> "none", ret |-> "none"]

InputMode == {"Cooked", "Character", "RawCooked", "RawCharacter"}

NoTty(buffered, processing) ==
  [buffered |-> buffered, processing |-> processing, mode |-> "none",
   ret |-> FALSE]

NoInput ==
  [event |-> "none", auto |-> FALSE, resized |-> FALSE, ret |-> "none"]

NoAttr ==
  [fn |-> "none", fg |-> "None", bg |-> "None", pair |-> 0, called |-> FALSE,
   ret |-> FALSE]

InitConfigVars ==
  /\ delay = NoTimeout
  /\ curs = NoCurs({0, 1, 2})
  /\ tty = NoTty(TRUE, TRUE)

InitIoVars ==
  /\ inp = NoInput
  /\ attr = NoAttr

InitMethodVars ==
  /\ InitCursorVars
  /\ InitConfigVars
  /\ InitIoVars

InitSession ==
  /\ curses_is_on = FALSE
  /\ aborted = FALSE
  /\ pc = [t \in Threads |-> "idle"]
  /\ frame = [t \in Threads |-> "direct"]
  /\ w = [t \in Threads |-> 0]
  /\ color_support = [t \in Threads |-> FALSE]
  /\ handle = [t \in Threads |-> NoHandle]
  /\ exit = [t \in Threads |-> NoExit]
  /\ result = [t \in Threads |-> NoRet]
  /\ initscr_calls = 0
  /\ endwin_calls = 0
  /\ pairs = << >>
  /\ last_call = NoCall

Init ==
  /\ debug_assertions \in BOOLEAN
  /\ term \in Terminals
  /\ InitSession
  /\ InitColorVars
  /\ InitMethodVars


\* ----------------------------------------------------- the session flag
\* AtomicBool::compare_and_swap(current, new): one indivisible step that
\* returns the previous value and stores new iff the previous value was
\* current.
compare_and_swap_blind(flag, current, new) ==
  [old |-> current, stored |-> new]

compare_and_swap(flag, current, new) ==
  [old |-> flag, stored |-> IF flag = current THEN new ELSE flag]

\* The statements of Drop::drop, in program order.
drop_body_store_first == <<"store", "endwin">>

drop_body_no_store == <<"endwin", "skip">>

drop_body_no_endwin == <<"skip", "store">>

drop_body == <<"endwin", "store">>

\* ------------------------------------------- initialize_system: the loop
\* The k-th iteration (k = 0..63) of the nested loops over color_iterator.
loop_fg(k) == color_iterator[(k \div 8) + 1]
loop_bg(k) == color_iterator[(k % 8) + 1]

\* The three debug_assert! of one iteration; they are compiled out when
\* debug_assertions is off.
color_asserts_hold(k) ==
  LET fgi == color_to_i16(loop_fg(k))
      bgi == color_to_i16(loop_bg(k))
  IN /\ fgi <= AsI16(term.COLORS)
     /\ bgi <= AsI16(term.COLORS)

pair_assert_holds(k) ==
  LET fgi == color_to_i16(loop_fg(k))
      bgi == color_to_i16(loop_bg(k))
  IN fgbg_pairid(fgi, bgi) <= AsI16(term.COLOR_PAIRS)

asserts_hold(k) ==
  debug_assertions => (color_asserts_hold(k) /\ pair_assert_holds(k))

\* The first iteration whose assertion fails, 64 when none does.
first_failure ==
  IF \E k \in 0..63 : ~asserts_hold(k)
  THEN CHOOSE k \in 0..63 :
         /\ ~asserts_hold(k)
         /\ \A j \in 0..(k - 1) : asserts_hold(j)
  ELSE 64

\* pancurses::init_pair(pair_id, fgi, bgi): the provider registers the pair
\* when the colours are among the COLORS() it has and the id is one of the
\* pairs 1 .. COLOR_PAIRS() - 1 it can hold (pair 0 cannot be assigned; "we're
\* only assured to have color pairs 0 through 63 available"); otherwise it
\* reports ERR, which the loop does not look at.
init_pair_accepts(pair_id, fgi, bgi) ==
  /\ 1 <= pair_id /\ pair_id < term.COLOR_PAIRS
  /\ 0 <= fgi /\ fgi < term.COLORS
  /\ 0 <= bgi /\ bgi < term.COLORS

\* The registrations left by the init_pair calls of iterations k, k+1, ...,
\* n-1 on top of reg; a later call for an id replaces an earlier one.
init_pairs(k, n, reg) ==
  LET call == [j \in k..(n - 1) |->
                 LET fgi == color_to_i16(loop_fg(j))
                     bgi == color_to_i16(loop_bg(j))
                     pair_id == fgbg_pairid(fgi, bgi)
                 IN [pair_id |-> pair_id, fgi |-> fgi, bgi |-> bgi,
                     ok |-> init_pair_accepts(pair_id, fgi, bgi)]]
      new_ids == {call[j].pair_id : j \in {i \in DOMAIN call : call[i].ok}}
  IN [id \in DOMAIN reg \cup new_ids |->
        IF id \in new_ids
        THEN LET js == {j \in DOMAIN call : call[j].ok /\ call[j].pair_id = id}
                 last == CHOOSE j \in js : \A i \in js : i <= j
             IN <<call[last].fgi, call[last].bgi>>
        ELSE reg[id]]

\* ------------------------------------------------ preserve_panic_message
\* result.map_err(...): the two downcast_ref attempts on the payload.
map_err_str_only(e) ==
  IF e.type = "&str" THEN Ret("ErrSome", e.text) ELSE Ret("ErrNone", "")

map_err(e) ==
  IF e.type = "&str" THEN Ret("ErrSome", e.text)
  ELSE IF e.type = "String" THEN Ret("ErrSome", e.text)
  ELSE Ret("ErrNone", "")

\* What catch_unwind(...) followed by map_err yields for the closure's exit.
wrapper_result(x) ==
  IF x.kind = "return" THEN Ret("Ok", x.text) ELSE map_err(x)

\* ---------------------------------------------------------------- actions
\* A panic that leaves initialize_system before a handle exists: inside
\* preserve_panic_message it is caught by catch_unwind, otherwise it
\* unwinds the caller.
Unwound(t, p) ==
  IF frame[t] = "wrapper"
  THEN /\ pc' = [pc EXCEPT ![t] = "map"]
       /\ exit' = [exit EXCEPT ![t] = Panic(p)]
       /\ UNCHANGED result
  ELSE /\ pc' = [pc EXCEPT ![t] = "idle"]
       /\ result' = [result EXCEPT ![t] = Ret("Panicked", "")]
       /\ UNCHANGED exit

\* The thread calls EasyCurses::initialize_system() itself.
call_initialize_system(t) ==
  /\ ~aborted
  /\ pc[t] = "idle"
  /\ initscr_calls < MaxSessions
  /\ pc' = [pc EXCEPT ![t] = "cas"]
  /\ frame' = [frame EXCEPT ![t] = "direct"]
  /\ result' = [result EXCEPT ![t] = NoRet]
  /\ UNCHANGED <<curses_is_on, aborted, w, color_support, handle, exit>>
  /\ UNCHANGED <<initscr_calls, endwin_calls, pairs, last_call>>
  /\ UNCHANGED <<envVars, colorVars, methodVars>>

\* The thread calls preserve_panic_message(user_function).
call_preserve_panic_message(t) ==
  /\ ~aborted
  /\ t = MainThread
  /\ pc[t] = "idle"
  /\ initscr_calls < MaxSessions
  /\ pc' = [pc EXCEPT ![t] = "cas"]
  /\ frame' = [frame EXCEPT ![t] = "wrapper"]
  /\ result' = [result EXCEPT ![t] = NoRet]
  /\ UNCHANGED <<curses_is_on, aborted, w, color_support, handle, exit>>
  /\ UNCHANGED <<initscr_calls, endwin_calls, pairs, last_call>>
  /\ UNCHANGED <<envVars, colorVars, methodVars>>

\* if !curses_is_on.compare_and_swap(false, true, SeqCst) { ... } else { None }
\* In the wrapper the None meets .expect("Curses double-initialization.").
init_cas(t) ==
  /\ ~aborted
  /\ pc[t] = "cas"
  /\ LET r == compare_and_swap(curses_is_on, FALSE, TRUE) IN
       /\ curses_is_on' = r.stored
       /\ IF ~r.old
          THEN /\ pc' = [pc EXCEPT ![t] = "initscr"]
               /\ UNCHANGED <<exit, result>>
          ELSE IF frame[t] = "wrapper"
          THEN Unwound(t, DoubleInit)
          ELSE /\ pc' = [pc EXCEPT ![t] = "idle"]
               /\ result' = [result EXCEPT ![t] = Ret("None", "")]
               /\ UNCHANGED exit
  /\ UNCHANGED <<aborted, frame, w, color_support, handle>>
  /\ UNCHANGED <<initscr_calls, endwin_calls, pairs, last_call>>
  /\ UNCHANGED <<envVars, colorVars, methodVars>>

\* let w = pancurses::initscr();  The new window has its cursor at (0, 0)
\* and nothing has been asked of it yet.
init_initscr(t) ==
  /\ ~aborted
  /\ pc[t] = "initscr"
  /\ initscr_calls' = initscr_calls + 1
  /\ w' = [w EXCEPT ![t] = initscr_calls + 1]
  /\ pc' = [pc EXCEPT ![t] = "colors"]
  /\ scr' = Window(scr.rows, scr.cols)
  /\ moved' = NoMove
  /\ got' = NoGet
  /\ UNCHANGED <<curses_is_on, aborted, frame, color_support, handle, exit,
                 result>>
  /\ UNCHANGED <<endwin_calls, pairs, last_call>>
  /\ UNCHANGED <<envVars, colorVars, configVars, ioVars>>

\* let color_support = if has_colors() { to_bool(start_color()) } else { false };
init_colors(t) ==
  /\ ~aborted
  /\ pc[t] = "colors"
  /\ LET cs == IF term.has_colors THEN to_bool(term.start_color) ELSE FALSE IN
       /\ color_support' = [color_support EXCEPT ![t] = cs]
       /\ pc' = [pc EXCEPT ![t] = IF cs THEN "pairs" ELSE "some"]
  /\ UNCHANGED <<curses_is_on, aborted, frame, w, handle, exit, result>>
  /\ UNCHANGED <<initscr_calls, endwin_calls, pairs, last_call>>
  /\ UNCHANGED <<envVars, colorVars, methodVars>>

\* if color_support { for fg .. { for bg .. { debug_assert!..; init_pair } } }
\* A failed assertion unwinds out of initialize_system: the locals w and
\* color_support are dropped and no EasyCurses value is built.
init_register_pairs(t) ==
  /\ ~aborted
  /\ pc[t] = "pairs"
  /\ LET n == first_failure IN
       /\ pairs' = init_pairs(0, n, pairs)
       /\ IF n = 64
          THEN /\ pc' = [pc EXCEPT ![t] = "some"]
               /\ UNCHANGED <<exit, result, w, color_support>>
          ELSE /\ Unwound(t, IF color_asserts_hold(n) THEN PairIdsPanic
                             ELSE ColorIdsPanic)
               /\ w' = [w EXCEPT ![t] = 0]
               /\ color_support' = [color_support EXCEPT ![t] = FALSE]
  /\ UNCHANGED <<curses_is_on, aborted, frame, handle>>
  /\ UNCHANGED <<initscr_calls, endwin_calls, last_call>>
  /\ UNCHANGED <<envVars, colorVars, methodVars>>

\* Some(EasyCurses { win: w, color_support, auto_resize: true })
init_return_some(t) ==
  /\ ~aborted
  /\ pc[t] = "some"
  /\ handle' = [handle EXCEPT ![t] =
                  [live |-> TRUE, win |-> w[t],
                   color_support |-> color_support[t], auto_resize |-> TRUE]]
  /\ w' = [w EXCEPT ![t] = 0]
  /\ color_support' = [color_support EXCEPT ![t] = FALSE]
  /\ pc' = [pc EXCEPT ![t] = "holding"]
  /\ result' = [result EXCEPT ![t] =
                  IF frame[t] = "direct" THEN Ret("Some", "") ELSE @]
  /\ UNCHANGED <<curses_is_on, aborted, frame, exit>>
  /\ UNCHANGED <<initscr_calls, endwin_calls, pairs, last_call>>
  /\ UNCHANGED <<envVars, colorVars, methodVars>>

\* A method of the handle (&self / &mut self) calling into the provider.
method_call(t, m) ==
  /\ ~aborted
  /\ pc[t] = "holding"
  /\ handle[t].live
  /\ last_call' = [fn |-> m,
                   initscrs_since |-> initscr_calls - handle[t].win,
                   endwins_since |-> endwin_calls - (handle[t].win - 1)]
  /\ UNCHANGED <<curses_is_on, aborted, pc, frame, w, color_support, handle,
                 exit, result>>
  /\ UNCHANGED <<initscr_calls, endwin_calls, pairs>>
  /\ UNCHANGED <<envVars, colorVars, methodVars>>

\* The code holding the handle returns or panics: the handle goes out of
\* scope and Drop::drop starts.  Outside preserve_panic_message the value or
\* payload goes to the caller's caller and is of no concern here.
leave_scope(t, x) ==
  /\ ~aborted
  /\ pc[t] = "holding"
  /\ exit' = [exit EXCEPT ![t] =
                IF frame[t] = "wrapper" THEN x
                ELSE [kind |-> x.kind, type |-> "", text |-> ""]]
  /\ pc' = [pc EXCEPT ![t] = "drop1"]
  /\ UNCHANGED <<curses_is_on, aborted, frame, w, color_support, handle,
                 result>>
  /\ UNCHANGED <<initscr_calls, endwin_calls, pairs, last_call>>
  /\ UNCHANGED <<envVars, colorVars, methodVars>>

\* The process aborts without unwinding while the handle is held.
abort(t) ==
  /\ ~aborted
  /\ pc[t] = "holding"
  /\ aborted' = TRUE
  /\ UNCHANGED <<curses_is_on, pc, frame, w, color_support, handle, exit,
                 result>>
  /\ UNCHANGED <<initscr_calls, endwin_calls, pairs, last_call>>
  /\ UNCHANGED <<envVars, colorVars, methodVars>>

\* One statement of Drop::drop: pancurses::endwin(); then
\* curses_is_on.store(false, SeqCst).  After the last one the handle is gone
\* and the caller's return or unwinding continues: in the wrapper towards
\* catch_unwind, otherwise out of the caller's code.
drop(t) ==
  /\ ~aborted
  /\ pc[t] \in {"drop1", "drop2"}
  /\ LET stmt == drop_body[IF pc[t] = "drop1" THEN 1 ELSE 2] IN
       /\ endwin_calls' = IF stmt = "endwin" THEN endwin_calls + 1
                          ELSE endwin_calls
       /\ curses_is_on' = IF stmt = "store" THEN FALSE ELSE curses_is_on
  /\ IF pc[t] = "drop1"
     THEN /\ pc' = [pc EXCEPT ![t] = "drop2"]
          /\ UNCHANGED <<handle, result, exit>>
     ELSE /\ handle' = [handle EXCEPT ![t] = NoHandle]
          /\ IF frame[t] = "wrapper"
             THEN /\ pc' = [pc EXCEPT ![t] = "map"]
                  /\ UNCHANGED <<result, exit>>
             ELSE /\ pc' = [pc EXCEPT ![t] = "idle"]
                  /\ exit' = [exit EXCEPT ![t] = NoExit]
                  /\ result' = [result EXCEPT ![t] =
                       IF exit[t].kind = "panic" THEN Ret("Panicked", "")
                       ELSE Ret("Returned", "")]
  /\ UNCHANGED <<aborted, frame, w, color_support>>
  /\ UNCHANGED <<initscr_calls, pairs, last_call>>
  /\ UNCHANGED <<envVars, colorVars, methodVars>>

\* preserve_panic_message returns result.map_err(...).
preserve_return(t) ==
  /\ ~aborted
  /\ pc[t] = "map"
  /\ result' = [result EXCEPT ![t] = wrapper_result(exit[t])]
  /\ exit' = [exit EXCEPT ![t] = NoExit]
  /\ pc' = [pc EXCEPT ![t] = "idle"]
  /\ frame' = [frame EXCEPT ![t] = "direct"]
  /\ UNCHANGED <<curses_is_on, aborted, w, color_support, handle>>
  /\ UNCHANGED <<initscr_calls, endwin_calls, pairs, last_call>>
  /\ UNCHANGED <<envVars, colorVars, methodVars>>

\* --------------------------------------------- the colour identity scheme
\* ColorPair values and colour conversions are pure; the actions below apply
\* them to every input and keep the results for inspection.
I16Samples == -1..8

\* ColorPair::new(fg, bg)
new_pair(fg, bg) ==
  /\ Cardinality(made) < MaxMade
  /\ made' = made \cup
       {[via |-> "new", fg |-> fg, bg |-> bg, id |-> ColorPair_new(fg, bg)]}
  /\ UNCHANGED conv
  /\ UNCHANGED <<curses_is_on, aborted, pc, frame, w, color_support, handle,
                 exit, result>>
  /\ UNCHANGED <<initscr_calls, endwin_calls, pairs, last_call>>
  /\ UNCHANGED <<envVars, methodVars>>

\* ColorPair::default()
default_pair ==
  /\ Cardinality(made) < MaxMade
  /\ made' = made \cup
       {[via |-> "default", fg |-> "White", bg |-> "Black",
         id |-> ColorPair_default]}
  /\ UNCHANGED conv
  /\ UNCHANGED <<curses_is_on, aborted, pc, frame, w, color_support, handle,
                 exit, result>>
  /\ UNCHANGED <<initscr_calls, endwin_calls, pairs, last_call>>
  /\ UNCHANGED <<envVars, methodVars>>

\* i16_to_color(color_to_i16(color)), as in
\* test_color_i32_conversion_identity.
convert_color(color) ==
  /\ conv' = [color |-> color, i16 |-> color_to_i16(color),
              back |-> i16_to_color(color_to_i16(color))]
  /\ UNCHANGED made
  /\ UNCHANGED <<curses_is_on, aborted, pc, frame, w, color_support, handle,
                 exit, result>>
  /\ UNCHANGED <<initscr_calls, endwin_calls, pairs, last_call>>
  /\ UNCHANGED <<envVars, methodVars>>

\* i16_to_color(val) on its own, for values inside and outside 0..7.
convert_i16(val) ==
  /\ conv' = [color |-> "None", i16 |-> val, back |-> i16_to_color(val)]
  /\ UNCHANGED made
  /\ UNCHANGED <<curses_is_on, aborted, pc, frame, w, color_support, handle,
                 exit, result>>
  /\ UNCHANGED <<initscr_calls, endwin_calls, pairs, last_call>>
  /\ UNCHANGED <<envVars, methodVars>>

\* ------------------------------------------------- cursor and coordinates
\* i32 arithmetic.  With overflow checks (the default of a debug build) an
\* overflowing + or - panics; without them the result wraps.
I32Max == 2147483647
I32Min == (-I32Max) - 1

\* a + b and a - b leave the i32 range (decided inside the range)
add_overflows(a, b) ==
  \/ b > 0 /\ a > I32Max - b
  \/ b < 0 /\ a < I32Min - b

sub_overflows(a, b) ==
  \/ b < 0 /\ a > I32Max + b
  \/ b > 0 /\ a < I32Min + b

\* a + b and a - b modulo 2^32 in two's complement
wrapping_add(a, b) ==
  IF b > 0 /\ a > I32Max - b THEN (a + I32Min) + (b + I32Min)
  ELSE IF b < 0 /\ a < I32Min - b THEN (a - I32Min) + (b - I32Min)
  ELSE a + b

wrapping_sub(a, b) ==
  IF b < 0 /\ a > I32Max + b THEN (a + I32Min) + (I32Min - b)
  ELSE IF b > 0 /\ a < I32Min + b THEN ((a - I32Min) + (I32Max - b)) + 1
  ELSE a - b

overflow_checks == debug_assertions

\* Arguments tried for row and y, around the window and at the ends of the
\* i32 range, and for col and x, which reach the provider as they are.
Coords == (-1..MaxDim) \cup {I32Min, I32Max}

\* Window widths tried: the width takes no part in the conversion between
\* rows and y.
Widths == {1, 2}

Cols == -1..2

Dims == 1..MaxDim

\* self.win.mv(row, col): the provider moves the cursor and reports OK when
\* the cell is inside the window, and otherwise ignores the request.
InWindow(row, col) ==
  /\ 0 <= row /\ row < scr.rows
  /\ 0 <= col /\ col < scr.cols

mv(row, col) == IF InWindow(row, col) THEN OK ELSE ERR

after_mv(row, col) ==
  IF InWindow(row, col) THEN [scr EXCEPT !.row = row, !.col = col] ELSE scr

\* row_count - (y + 1) of move_xy, and whether one of its two operations
\* overflows.
xy_row_no_flip(row_count, y) == y

xy_row(row_count, y) == wrapping_sub(row_count, wrapping_add(y, 1))

xy_row_overflows(row_count, y) ==
  \/ add_overflows(y, 1)
  \/ sub_overflows(row_count, wrapping_add(y, 1))

\* (col, row_count - (row + 1)) of get_cursor_xy
cursor_xy(row_count, row, col) ==
  <<col, wrapping_sub(row_count, wrapping_add(row, 1))>>

OverflowPanic == [type |-> "&str", text |-> "attempt to add with overflow"]

\* pub fn move_rc(&mut self, row, col) -> bool
move_rc(t, row, col) ==
  /\ ~aborted
  /\ pc[t] = "holding"
  /\ handle[t].live
  /\ scr' = after_mv(row, col)
  /\ moved' = [fn |-> "move_rc", a |-> row, b |-> col, rows |-> scr.rows,
               ret |-> IF to_bool(mv(row, col)) THEN "true" ELSE "false"]
  /\ got' = NoGet
  /\ UNCHANGED <<curses_is_on, aborted, pc, frame, w, color_support, handle,
                 exit, result>>
  /\ UNCHANGED <<initscr_calls, endwin_calls, pairs, last_call>>
  /\ UNCHANGED <<envVars, colorVars, configVars, ioVars>>

\* pub fn move_xy(&mut self, x, y) -> bool
\*   let row_count = self.win.get_max_y();
\*   to_bool(self.win.mv(row_count - (y + 1), x))
\* A checked overflow panics: the handle's owner unwinds and the handle is
\* dropped.
move_xy(t, x, y) ==
  /\ ~aborted
  /\ pc[t] = "holding"
  /\ handle[t].live
  /\ got' = NoGet
  /\ LET row_count == scr.rows
         row == xy_row(row_count, y)
     IN IF overflow_checks /\ xy_row_overflows(row_count, y)
        THEN /\ moved' = [fn |-> "move_xy", a |-> x, b |-> y,
                          rows |-> row_count, ret |-> "panic"]
             /\ exit' = [exit EXCEPT ![t] =
                           IF frame[t] = "wrapper" THEN Panic(OverflowPanic)
                           ELSE [kind |-> "panic", type |-> "", text |-> ""]]
             /\ pc' = [pc EXCEPT ![t] = "drop1"]
             /\ UNCHANGED scr
        ELSE /\ scr' = after_mv(row, x)
             /\ moved' = [fn |-> "move_xy", a |-> x, b |-> y,
                          rows |-> row_count,
                          ret |-> IF to_bool(mv(row, x)) THEN "true"
                                  ELSE "false"]
             /\ UNCHANGED <<pc, exit>>
  /\ UNCHANGED <<curses_is_on, aborted, frame, w, color_support, handle,
                 result>>
  /\ UNCHANGED <<initscr_calls, endwin_calls, pairs, last_call>>
  /\ UNCHANGED <<envVars, colorVars, configVars, ioVars>>

\* pub fn get_cursor_rc(&self) -> (i32, i32): self.win.get_cur_yx()
get_cursor_rc(t) ==
  /\ ~aborted
  /\ pc[t] = "holding"
  /\ handle[t].live
  /\ got' = [fn |-> "get_cursor_rc", a |-> scr.row, b |-> scr.col,
             rows |-> scr.rows]
  /\ UNCHANGED <<scr, moved>>
  /\ UNCHANGED <<curses_is_on, aborted, pc, frame, w, color_support, handle,
                 exit, result>>
  /\ UNCHANGED <<initscr_calls, endwin_calls, pairs, last_call>>
  /\ UNCHANGED <<envVars, colorVars, configVars, ioVars>>

\* pub fn get_cursor_xy(&self) -> (i32, i32)
get_cursor_xy(t) ==
  /\ ~aborted
  /\ pc[t] = "holding"
  /\ handle[t].live
  /\ LET row_count == scr.rows
         xy == cursor_xy(row_count, scr.row, scr.col)
     IN got' = [fn |-> "get_cursor_xy", a |-> xy[1], b |-> xy[2],
                rows |-> row_count]
  /\ UNCHANGED <<scr, moved>>
  /\ UNCHANGED <<curses_is_on, aborted, pc, frame, w, color_support, handle,
                 exit, result>>
  /\ UNCHANGED <<initscr_calls, endwin_calls, pairs, last_call>>
  /\ UNCHANGED <<envVars, colorVars, configVars, ioVars>>

\* pancurses::resize_term(lines, cols): the window takes the size given.
\* A cursor that the new size leaves outside the window is pulled back to
\* its last row or column; the cursor is then where the provider put it,
\* not where the last move did.
resize_term(lines, cols) ==
  [rows |-> lines, cols |-> cols,
   row |-> IF scr.row > lines - 1 THEN lines - 1 ELSE scr.row,
   col |-> IF scr.col > cols - 1 THEN cols - 1 ELSE scr.col]

moved_after(new_scr) ==
  IF <<new_scr.row, new_scr.col>> = <<scr.row, scr.col>> THEN moved
  ELSE NoMove

\* pub fn resize(&mut self, new_lines, new_cols) -> bool with positive
\* arguments
resize_to(t, new_lines, new_cols) ==
  /\ ~aborted
  /\ pc[t] = "holding"
  /\ handle[t].live
  /\ scr' = resize_term(new_lines, new_cols)
  /\ moved' = moved_after(resize_term(new_lines, new_cols))
  /\ UNCHANGED got
  /\ UNCHANGED <<curses_is_on, aborted, pc, frame, w, color_support, handle,
                 exit, result>>
  /\ UNCHANGED <<initscr_calls, endwin_calls, pairs, last_call>>
  /\ UNCHANGED <<envVars, colorVars, configVars, ioVars>>

\* ------------------------------------------------------- input timeout
\* i32::max
i32_max_self(n, other) == n

i32_max(n, other) == IF n >= other THEN n ELSE other

TimeoutModes ==
  {[mode |-> "Immediate", n |-> 0], [mode |-> "Never", n |-> 0]}
  \cup {[mode |-> "WaitUpTo", n |-> n] : n \in (-2..2) \cup {I32Min, I32Max}}

\* pub fn set_input_timeout(&mut self, mode: TimeoutMode)
set_input_timeout(t, mode) ==
  /\ ~aborted
  /\ pc[t] = "holding"
  /\ handle[t].live
  /\ delay' = [mode |-> mode.mode, n |-> mode.n,
               arg |-> CASE mode.mode = "Immediate" -> 0
                         [] mode.mode = "WaitUpTo" -> i32_max(mode.n, 0)
                         [] mode.mode = "Never" -> -1]
  /\ UNCHANGED <<curs, tty>>
  /\ UNCHANGED <<curses_is_on, aborted, pc, frame, w, color_support, handle,
                 exit, result>>
  /\ UNCHANGED <<initscr_calls, endwin_calls, pairs, last_call>>
  /\ UNCHANGED <<envVars, colorVars, cursorVars, ioVars>>

\* ---------------------------------------------------- cursor visibility
\* pancurses::curs_set(code): a terminal that can do the mode switches to
\* it and returns the mode it was in; one that cannot returns ERR.
curs_set(code) == IF code \in curs.supported THEN curs.vis ELSE ERR

after_curs_set(code) == IF code \in curs.supported THEN code ELSE curs.vis

\* pub fn set_cursor_visibility(&mut self, vis) -> Option<CursorVisibility>
set_cursor_visibility(t, vis) ==
  /\ ~aborted
  /\ pc[t] = "holding"
  /\ handle[t].live
  /\ LET res == curs_set(vis_code(vis))
     IN curs' = [supported |-> curs.supported,
                 vis |-> after_curs_set(vis_code(vis)),
                 asked |-> vis, ret |-> vis_of_result(res)]
  /\ UNCHANGED <<delay, tty>>
  /\ UNCHANGED <<curses_is_on, aborted, pc, frame, w, color_support, handle,
                 exit, result>>
  /\ UNCHANGED <<initscr_calls, endwin_calls, pairs, last_call>>
  /\ UNCHANGED <<envVars, colorVars, cursorVars, ioVars>>

\* ------------------------------------------------------------ input mode
\* The provider's input state as two flags, line buffering and processing
\* of special characters, and what its four calls do to them: cbreak()
\* turns buffering off and processing on, nocbreak() turns buffering on,
\* raw() turns both off, noraw() turns both on.
cbreak(flags) == [buffered |-> FALSE, processing |-> TRUE]

nocbreak(flags) == [buffered |-> TRUE, processing |-> flags.processing]

raw(flags) == [buffered |-> FALSE, processing |-> FALSE]

noraw(flags) == [buffered |-> TRUE, processing |-> TRUE]

\* the match of set_input_mode
input_mode_call(mode, flags) ==
  CASE mode = "Character" -> cbreak(flags)
    [] mode = "Cooked" -> nocbreak(flags)
    [] mode = "RawCharacter" -> raw(flags)
    [] mode = "RawCooked" -> noraw(flags)

\* what the documentation of InputMode says of each mode
input_mode_doc(mode) ==
  CASE mode = "Cooked" -> [buffered |-> TRUE, processing |-> TRUE]
    [] mode = "Character" -> [buffered |-> FALSE, processing |-> TRUE]
    [] mode = "RawCooked" -> [buffered |-> TRUE, processing |-> FALSE]
    [] mode = "RawCharacter" -> [buffered |-> FALSE, processing |-> FALSE]

\* pub fn set_input_mode(&mut self, mode: InputMode) -> bool
\* A call the provider refuses (ERR) changes nothing.
set_input_mode(t, mode, r) ==
  /\ ~aborted
  /\ pc[t] = "holding"
  /\ handle[t].live
  /\ LET flags == [buffered |-> tty.buffered, processing |-> tty.processing]
         new == IF r = OK THEN input_mode_call(mode, flags) ELSE flags
     IN tty' = [buffered |-> new.buffered, processing |-> new.processing,
                mode |-> mode, ret |-> to_bool(r)]
  /\ UNCHANGED <<delay, curs>>
  /\ UNCHANGED <<curses_is_on, aborted, pc, frame, w, color_support, handle,
                 exit, result>>
  /\ UNCHANGED <<initscr_calls, endwin_calls, pairs, last_call>>
  /\ UNCHANGED <<envVars, colorVars, cursorVars, ioVars>>

\* ----------------------------------------------------------------- input
\* What self.win.getch() can return: no input, the resize event, a key.
Inputs == {"None", "KeyResize", "Character"}

\* if self.auto_resize { match ret { Some(Input::KeyResize) => .. } }
wants_resize_any(auto_resize, ret) == ret = "KeyResize"

wants_resize(auto_resize, ret) == auto_resize /\ ret = "KeyResize"

\* pub fn get_input(&mut self) -> Option<pancurses::Input>
\* self.resize(0, 0) makes the window take the size the terminal has now,
\* lines x cols.
get_input(t, event, lines, cols) ==
  /\ ~aborted
  /\ pc[t] = "holding"
  /\ handle[t].live
  /\ LET ret == event
         resizes == wants_resize(handle[t].auto_resize, ret)
     IN /\ inp' = [event |-> event, auto |-> handle[t].auto_resize,
                   resized |-> resizes, ret |-> ret]
        /\ scr' = IF resizes THEN resize_term(lines, cols) ELSE scr
        /\ moved' = IF resizes THEN moved_after(resize_term(lines, cols))
                    ELSE moved
  /\ UNCHANGED <<got, attr>>
  /\ UNCHANGED <<curses_is_on, aborted, pc, frame, w, color_support, handle,
                 exit, result>>
  /\ UNCHANGED <<initscr_calls, endwin_calls, pairs, last_call>>
  /\ UNCHANGED <<envVars, colorVars, configVars>>

\* pub auto_resize: bool, assigned by the handle's owner
set_auto_resize(t, b) ==
  /\ ~aborted
  /\ pc[t] = "holding"
  /\ handle[t].live
  /\ handle' = [handle EXCEPT ![t].auto_resize = b]
  /\ UNCHANGED <<curses_is_on, aborted, pc, frame, w, color_support, exit,
                 result>>
  /\ UNCHANGED <<initscr_calls, endwin_calls, pairs, last_call>>
  /\ UNCHANGED <<envVars, colorVars, methodVars>>

\* ------------------------------------------------------- colour support
\* pub fn is_color_terminal(&self) -> bool
is_color_terminal(t) ==
  /\ ~aborted
  /\ pc[t] = "holding"
  /\ handle[t].live
  /\ attr' = [fn |-> "is_color_terminal", fg |-> "None", bg |-> "None",
              pair |-> 0, called |-> FALSE, ret |-> handle[t].color_support]
  /\ UNCHANGED inp
  /\ UNCHANGED <<curses_is_on, aborted, pc, frame, w, color_support, handle,
                 exit, result>>
  /\ UNCHANGED <<initscr_calls, endwin_calls, pairs, last_call>>
  /\ UNCHANGED <<envVars, colorVars, cursorVars, configVars>>

\* pub fn set_color_pair(&mut self, pair: ColorPair), with the pair built
\* by ColorPair::new(fg, bg):
\*   if self.color_support { self.win.color_set(pair.0); }
set_color_pair(t, fg, bg) ==
  /\ ~aborted
  /\ pc[t] = "holding"
  /\ handle[t].live
  /\ attr' = [fn |-> "set_color_pair", fg |-> fg, bg |-> bg,
              pair |-> ColorPair_new(fg, bg),
              called |-> handle[t].color_support, ret |-> FALSE]
  /\ UNCHANGED inp
  /\ UNCHANGED <<curses_is_on, aborted, pc, frame, w, color_support, handle,
                 exit, result>>
  /\ UNCHANGED <<initscr_calls, endwin_calls, pairs, last_call>>
  /\ UNCHANGED <<envVars, colorVars, cursorVars, configVars>>

Next ==
  \/ \E t \in Threads : call_initialize_system(t)
  \/ \E t \in Threads : call_preserve_panic_message(t)
  \/ \E t \in Threads : init_cas(t)
  \/ \E t \in Threads : init_initscr(t)
  \/ \E t \in Threads : init_colors(t)
  \/ \E t \in Threads : init_register_pairs(t)
  \/ \E t \in Threads : init_return_some(t)
  \/ \E t \in Threads, m \in Methods : method_call(t, m)
  \/ \E t \in Threads, x \in Exits : leave_scope(t, x)
  \/ \E t \in Threads : abort(t)
  \/ \E t \in Threads : drop(t)
  \/ \E t \in Threads : preserve_return(t)

Spec == Init /\ [][Next]_vars

\* A thread that has started Drop::drop runs it to the end, and a caught
\* panic reaches the end of preserve_panic_message, unless the process is
\* aborted.
FairSpec ==
  /\ Spec
  /\ \A t \in Threads : WF_vars(drop(t))
  /\ \A t \in Threads : WF_vars(preserve_return(t))

\* The colour identity scheme on its own: no session is started.
ColorInit ==
  /\ debug_assertions = FALSE
  /\ term = [has_colors |-> FALSE, start_color |-> ERR, COLORS |-> 0,
             COLOR_PAIRS |-> 0]
  /\ InitSession
  /\ InitColorVars
  /\ InitMethodVars

ColorNext ==
  \/ \E fg \in Color, bg \in Color : new_pair(fg, bg)
  \/ default_pair
  \/ \E color \in Color : convert_color(color)
  \/ \E val \in I16Samples : convert_i16(val)

ColorSpec == ColorInit /\ [][ColorNext]_vars

\* The session of the main thread, from initialize_system to the drop of
\* the handle: the part every specification of the handle's methods shares.
MainSession ==
  \/ call_initialize_system(MainThread)
  \/ init_cas(MainThread)
  \/ init_initscr(MainThread)
  \/ init_colors(MainThread)
  \/ init_register_pairs(MainThread)
  \/ init_return_some(MainThread)
  \/ drop(MainThread)

\* An 8-colour terminal with 256 pairs.
MethodTerminal ==
  [has_colors |-> TRUE, start_color |-> OK, COLORS |-> 8, COLOR_PAIRS |-> 256]

\* Cursor movement on a window of any size up to MaxDim x MaxDim.
CursorInit ==
  /\ debug_assertions \in BOOLEAN
  /\ term = MethodTerminal
  /\ InitSession
  /\ InitColorVars
  /\ \E rows \in Dims, cols \in Widths : scr = Window(rows, cols)
  /\ moved = NoMove
  /\ got = NoGet
  /\ InitConfigVars
  /\ InitIoVars

CursorNext ==
  \/ MainSession
  \/ \E row \in Coords, col \in Cols : move_rc(MainThread, row, col)
  \/ \E x \in Cols, y \in Coords : move_xy(MainThread, x, y)
  \/ get_cursor_rc(MainThread)
  \/ get_cursor_xy(MainThread)
  \/ \E l \in Dims, c \in Widths : resize_to(MainThread, l, c)

CursorSpec == CursorInit /\ [][CursorNext]_vars

\* The code holding the handle returns and the handle is dropped.
owner_returns(t) ==
  leave_scope(t, [kind |-> "return", type |-> "R", text |-> "r1"])

\* The configuration methods, on terminals that differ in the cursor modes
\* they can do and in the input flags curses starts with.
ConfigInit ==
  /\ debug_assertions = FALSE
  /\ term = MethodTerminal
  /\ InitSession
  /\ InitColorVars
  /\ InitCursorVars
  /\ InitIoVars
  /\ delay = NoTimeout
  /\ \E supported \in {{0, 1, 2}, {0, 1}, {}} : curs = NoCurs(supported)
  /\ \E buffered \in BOOLEAN, processing \in BOOLEAN :
       tty = NoTty(buffered, processing)

ConfigNext ==
  \/ MainSession
  \/ owner_returns(MainThread)
  \/ \E mode \in TimeoutModes : set_input_timeout(MainThread, mode)
  \/ \E vis \in CursorVisibility : set_cursor_visibility(MainThread, vis)
  \/ \E mode \in InputMode, r \in {OK, ERR} :
       set_input_mode(MainThread, mode, r)

ConfigSpec == ConfigInit /\ [][ConfigNext]_vars

\* Input retrieval while the terminal changes its size.
InputInit ==
  /\ debug_assertions = FALSE
  /\ term = MethodTerminal
  /\ InitSession
  /\ InitColorVars
  /\ \E rows \in Dims, cols \in Widths : scr = Window(rows, cols)
  /\ moved = NoMove
  /\ got = NoGet
  /\ InitConfigVars
  /\ InitIoVars

InputNext ==
  \/ MainSession
  \/ owner_returns(MainThread)
  \/ \E event \in Inputs, lines \in Dims, cols \in Widths :
       get_input(MainThread, event, lines, cols)
  \/ \E b \in BOOLEAN : set_auto_resize(MainThread, b)

InputSpec == InputInit /\ [][InputNext]_vars

\* Colour pairs on every kind of terminal, in both builds.
PairInit ==
  /\ debug_assertions \in BOOLEAN
  /\ term \in Terminals
  /\ InitSession
  /\ InitColorVars
  /\ InitMethodVars

PairNext ==
  \/ MainSession
  \/ owner_returns(MainThread)
  \/ is_color_terminal(MainThread)
  \/ \E fg \in Color, bg \in Color : set_color_pair(MainThread, fg, bg)

PairSpec == PairInit /\ [][PairNext]_vars

\* Initialization alone, on colour terminals reporting limits below, at
\* and above what the scheme needs and beyond the i16 range.
LimitTerminals ==
  {[has_colors |-> TRUE, start_color |-> OK, COLORS |-> c, COLOR_PAIRS |-> p] :
     c \in {7, 8, 256}, p \in {63, 64, 256, 32767, 32768, 65536}}

LimitInit ==
  /\ debug_assertions \in BOOLEAN
  /\ term \in LimitTerminals
  /\ InitSession
  /\ InitColorVars
  /\ InitMethodVars

LimitNext ==
  \/ MainSession
  \/ owner_returns(MainThread)

LimitSpec == LimitInit /\ [][LimitNext]_vars

TypeOK ==
  /\ curses_is_on \in BOOLEAN
  /\ pc \in [Threads -> {"idle", "cas", "initscr", "colors", "pairs", "some",
                         "holding", "drop1", "drop2", "map"}]
  /\ \A t \in Threads : handle[t].live => pc[t] \in {"holding", "drop1", "drop2"}

\* ------------------------------------------------------------ properties
HandleLive == \E t \in Threads : handle[t].live

Holders == {t \in Threads : handle[t].live}

InInit(t) == pc[t] \in {"initscr", "colors", "pairs", "some"}

ProviderState == <<initscr_calls, endwin_calls, pairs, last_call>>

\* The position of a colour in the enumeration, Black = 0 .. White = 7.
index(color) == (CHOOSE i \in 1..8 : color_iterator[i] = color) - 1

\* C1: session singleton.  An initialize_system call that reaches its
\* compare_and_swap while a handle is live returns None (inside the wrapper:
\* fails its expect) without any provider call; once a handle has been
\* dropped, the next call (no handle live, no other call in progress) wins
\* the flag, and a call that started after a drop only ends by returning a
\* handle.
C1_SessionSingleton ==
  [][\A t \in Threads :
       /\ (pc[t] = "cas" /\ pc'[t] # "cas" /\ HandleLive)
            => /\ ~InInit(t)'
               /\ ~handle'[t].live
               /\ ProviderState' = ProviderState
               /\ frame[t] = "direct" => result'[t] = Ret("None", "")
               /\ frame[t] = "wrapper" => exit'[t] = Panic(DoubleInit)
       /\ (/\ pc[t] = "cas" /\ pc'[t] # "cas"
           /\ ~HandleLive
           /\ endwin_calls >= 1
           /\ \A u \in Threads : ~InInit(u))
            => pc'[t] = "initscr"
       /\ (InInit(t) /\ ~InInit(t)' /\ endwin_calls >= 1)
            => handle'[t].live]_vars

\* A second session is live after the first was dropped, and some call was
\* turned away with None.
C1_Witness ==
  /\ initscr_calls = 2
  /\ endwin_calls = 1
  /\ HandleLive
  /\ \E t \in Threads : result[t] = Ret("None", "")

\* C2: mutual exclusion.  At most one handle exists at any time, and when
\* every thread has finished an initialize_system call of the first race
\* (no session has been torn down yet), exactly one of them has received a
\* handle and every other one has received None.
C2_MutualExclusion ==
  /\ Cardinality(Holders) <= 1
  /\ (/\ ~aborted
      /\ endwin_calls = 0
      /\ \A t \in Threads :
           \/ pc[t] = "holding" /\ result[t].tag = "Some"
           \/ pc[t] = "idle" /\ result[t].tag \in {"None", "Panicked"})
       => /\ Cardinality(Holders) = 1
          /\ \A t \in Threads \ Holders : result[t] = Ret("None", "")

\* C3: guaranteed restoration.  From the moment the handle leaves its scope
\* (by return or by unwinding) endwin is called exactly once for that
\* session and the flag is cleared after it: the drop runs to its end unless
\* the process is aborted, and after an abort neither happens any more.
C3_Restoration ==
  /\ [](\A t \in Threads :
          /\ pc[t] = "drop1" => (endwin_calls = handle[t].win - 1 /\ curses_is_on)
          /\ pc[t] = "drop2" => (endwin_calls = handle[t].win /\ curses_is_on))
  /\ [][/\ \A t \in Threads :
             (handle[t].live /\ ~handle'[t].live)
               => (endwin_calls' = handle[t].win /\ ~curses_is_on')
        /\ aborted => (endwin_calls' = endwin_calls
                       /\ curses_is_on' = curses_is_on)]_vars
  /\ \A t \in Threads :
       (pc[t] = "drop1") ~> (aborted \/ (~handle[t].live /\ ~curses_is_on))

\* A session has been torn down after a panic of the code holding the
\* handle.
C3_Witness ==
  /\ endwin_calls = 1
  /\ ~curses_is_on
  /\ \E t \in Threads : pc[t] = "idle" /\ result[t].tag = "Panicked"
  /\ \A t \in Threads : ~handle[t].live

\* C4: teardown ordering.  The lifecycle calls alternate initscr, endwin,
\* initscr, ...: initscr is only called when every earlier session's endwin
\* has been called, endwin at most once per initscr, and the flag is still
\* set when endwin has been called and the store has not.
C4_TeardownOrdering ==
  /\ endwin_calls <= initscr_calls
  /\ initscr_calls <= endwin_calls + 1
  /\ \A t \in Threads :
       /\ pc[t] = "initscr" => endwin_calls = initscr_calls
       /\ pc[t] = "drop2" => (curses_is_on /\ endwin_calls = initscr_calls)

\* A thread is between endwin and the store while another one is about to
\* try the flag, after an earlier complete session.
C4_Witness ==
  /\ initscr_calls = 2
  /\ endwin_calls = 2
  /\ \E t, u \in Threads : pc[t] = "drop2" /\ pc[u] = "cas"

\* C5: the flag is true iff a handle exists, in every state in which no
\* initialize_system call and no drop is in progress.
C5_FlagIffHandle ==
  (/\ ~aborted
   /\ \A t \in Threads : pc[t] \in {"idle", "cas", "holding", "map"})
    => (curses_is_on <=> HandleLive)

\* C6: when preserve_panic_message has returned (any Result) and no other
\* thread has touched the session, curses is shut down: endwin has been
\* called for every initscr and the flag is false.
C6_WrapperShutsDown ==
  \A t \in Threads :
    (/\ pc[t] = "idle"
     /\ result[t].tag \in {"Ok", "ErrSome", "ErrNone"}
     /\ \A u \in Threads \ {t} : pc[u] = "idle" /\ result[u] = NoRet)
      => (~curses_is_on /\ endwin_calls = initscr_calls)

\* C7: result mapping of preserve_panic_message.  A returned value r gives
\* Ok(r); a panic with a &str or String payload gives Err(Some(text)) with
\* exactly that text; a panic with any other payload gives Err(None).
C7_ResultMapping ==
  [][\A t \in Threads :
       (pc[t] = "map" /\ pc'[t] = "idle")
         => /\ exit[t].kind = "return" => result'[t] = Ret("Ok", exit[t].text)
            /\ (exit[t].kind = "panic" /\ exit[t].type \in {"&str", "String"})
                 => result'[t] = Ret("ErrSome", exit[t].text)
            /\ (exit[t].kind = "panic" /\ exit[t].type \notin {"&str", "String"})
                 => result'[t] = Ret("ErrNone", "")]_vars

\* The wrapper has returned the text of a String payload of the user
\* function.
C7_Witness ==
  /\ endwin_calls >= 1
  /\ \E t \in Threads : pc[t] = "idle" /\ result[t] = Ret("ErrSome", "bad state")

\* C8: every provider call made through a method of the handle is made
\* after the initscr that returned the handle's window, before any endwin
\* of that session and before any later initscr; and whenever a thread can
\* call a method, the provider is in the session of its handle.
C8_CallsInsideSession ==
  /\ last_call.fn # "none"
       => (last_call.initscrs_since = 0 /\ last_call.endwins_since = 0)
  /\ \A t \in Threads :
       pc[t] = "holding"
         => (initscr_calls = handle[t].win /\ endwin_calls = handle[t].win - 1)

\* A method was called in the second session, which has since ended.
C8_Witness ==
  /\ last_call.fn = "get_input"
  /\ initscr_calls = 2
  /\ endwin_calls = 2

\* C9: the colour identity scheme.  Every ColorPair::new(fg, bg) has the
\* identifier 1 + 8*index(fg) + index(bg), inside 1..64; two pairs with the
\* same identifier have the same colours; and a colour's index is in 0..7
\* and converts back to the colour, every index in 0..7 being a colour's.
C9_ColorScheme ==
  /\ \A p \in made :
       p.via = "new"
         => /\ p.id = 1 + 8 * index(p.fg) + index(p.bg)
            /\ p.id \in 1..64
  /\ \A p, q \in made :
       (p.via = "new" /\ q.via = "new" /\ p.id = q.id)
         => (p.fg = q.fg /\ p.bg = q.bg)
  /\ conv.color # "None"
       => (conv.i16 = index(conv.color) /\ conv.back = conv.color)
  /\ (conv.color = "None" /\ conv.i16 \in 0..7)
       => (conv.back \in Color /\ index(conv.back) = conv.i16)
  /\ (conv.color = "None" /\ conv.i16 \notin 0..7) => conv.back = "None"

\* Two different pairs were built, one of them White on White (the largest
\* identifier).
C9_Witness ==
  /\ \E p \in made : p.via = "new" /\ p.fg = "White" /\ p.bg = "White"
  /\ \E p \in made : p.via = "new" /\ p.id = 1
  /\ Cardinality(made) = 2

\* C10 as stated: ColorPair::default() equals ColorPair::new(White, Black),
\* is not pair 0, and its identifier is 1.
C10_DefaultIsOne ==
  \A p \in made :
    p.via = "default"
      => /\ p.id = 1
         /\ p.id # 0
         /\ \A q \in made :
              (q.via = "new" /\ q.fg = "White" /\ q.bg = "Black") => q.id = p.id

\* C10 amended: ColorPair::default() equals ColorPair::new(White, Black),
\* is not pair 0, and its identifier is 1 + 8*7 + 0 = 57.
C10_DefaultIsWhiteOnBlack ==
  \A p \in made :
    p.via = "default"
      => /\ p.id = 1 + 8 * index("White") + index("Black")
         /\ p.id = 57
         /\ p.id # 0
         /\ \A q \in made :
              (q.via = "new" /\ q.fg = "White" /\ q.bg = "Black") => q.id = p.id

\* Both ColorPair::default() and ColorPair::new(White, Black) were built.
C10_Witness ==
  /\ \E p \in made : p.via = "default"
  /\ \E q \in made : q.via = "new" /\ q.fg = "White" /\ q.bg = "Black"

\* ---------------------------------------------------------------- C11
\* C11: coordinate round trip.  A move to a cell inside the window
\* succeeds; a get_cursor_xy that follows a successful move_xy(x, y) with
\* the same row count returns (x, y); a get_cursor_rc that follows a
\* successful move_rc(row, col) returns (row, col); and for every row count
\* from 1 up and every cell, (row, col) -> (x, y) -> (row, col) is the
\* identity.
C11_RoundTrip ==
  /\ [](/\ (/\ moved.fn = "move_xy" /\ moved.ret = "true"
            /\ got.fn = "get_cursor_xy" /\ got.rows = moved.rows)
           => <<got.a, got.b>> = <<moved.a, moved.b>>
        /\ (/\ moved.fn = "move_rc" /\ moved.ret = "true"
            /\ got.fn = "get_cursor_rc")
           => <<got.a, got.b>> = <<moved.a, moved.b>>
        /\ \A row_count \in Dims, row \in 0..(MaxDim - 1), col \in Cols :
             row < row_count =>
               LET xy == cursor_xy(row_count, row, col)
               IN <<xy_row(row_count, xy[2]), xy[1]>> = <<row, col>>)
  /\ [][(/\ <<moved', got'>> # <<moved, got>>
          /\ moved'.fn \in {"move_xy", "move_rc"}
          /\ got' = NoGet
          /\ 0 <= moved'.a /\ 0 <= moved'.b
          /\ IF moved'.fn = "move_xy"
             THEN moved'.a < scr.cols /\ moved'.b < scr.rows
             ELSE moved'.a < scr.rows /\ moved'.b < scr.cols)
         => /\ moved'.ret = "true"
            /\ <<scr'.row, scr'.col>> =
                 IF moved'.fn = "move_xy"
                 THEN <<scr.rows - (moved'.b + 1), moved'.a>>
                 ELSE <<moved'.a, moved'.b>>]_vars

\* A move_xy to the top right cell of a two-row window, read back as the
\* same (x, y) while the cursor is on row 0.
C11_Witness ==
  /\ moved = [fn |-> "move_xy", a |-> 1, b |-> 1, rows |-> 2, ret |-> "true"]
  /\ got = [fn |-> "get_cursor_xy", a |-> 1, b |-> 1, rows |-> 2]
  /\ scr.row = 0
  /\ scr.col = 1

\* ---------------------------------------------------------------- C19
\* C19: out-of-bounds moves are ignored and never escalate.  Every
\* move_xy(x, y) returns a bool, never a panic, and when (x, y) is outside
\* the window, the extreme values of y included, the result is false and
\* the cursor stays where it was.
C19_MovesNeverEscalate ==
  /\ [](moved.fn = "move_xy" => moved.ret \in {"true", "false"})
  /\ [][(/\ <<moved', got'>> # <<moved, got>>
          /\ moved'.fn = "move_xy"
          /\ got' = NoGet
          /\ ~(/\ 0 <= moved'.a /\ moved'.a < scr.cols
               /\ 0 <= moved'.b /\ moved'.b < scr.rows))
         => /\ moved'.ret = "false"
            /\ scr' = scr]_vars

\* ---------------------------------------------------------------- C12
\* C12: timeout clamping.  WaitUpTo(n) with a negative n gives the provider
\* the timeout 0, as WaitUpTo(0) and Immediate do; WaitUpTo(n) with n >= 0
\* gives it n; the provider gets a negative timeout only for Never.
C12_TimeoutClamping ==
  /\ (delay.mode = "WaitUpTo" /\ delay.n < 0) => delay.arg = 0
  /\ (delay.mode = "WaitUpTo" /\ delay.n >= 0) => delay.arg = delay.n
  /\ delay.mode = "Immediate" => delay.arg = 0
  /\ (delay.mode # "none" /\ delay.arg < 0) => delay.mode = "Never"

\* WaitUpTo(-2) reached the provider as timeout(0).
C12_Witness ==
  delay = [mode |-> "WaitUpTo", n |-> -2, arg |-> 0]

\* ---------------------------------------------------------------- C15
\* C15: set_cursor_visibility(vis) returns Some(the mode the cursor was in)
\* when the provider accepts the request and None, with the mode unchanged,
\* when it rejects it; on a terminal that can do every mode each call
\* returns the visibility the most recent earlier call asked for, and
\* Visible when there was none.
C15_ReturnsPrevious ==
  [][(curs' # curs /\ curs'.asked # "none")
     => /\ vis_code(curs'.asked) \in curs.supported
           => /\ curs'.ret = vis_of_result(curs.vis)
              /\ curs'.ret \in CursorVisibility
        /\ vis_code(curs'.asked) \notin curs.supported
           => /\ curs'.ret = "None"
              /\ curs'.vis = curs.vis
        /\ curs.supported = {0, 1, 2}
           => curs'.ret = (IF curs.asked = "none" THEN CursorVisibility_default
                           ELSE curs.asked)]_vars

\* After Invisible, a request for HighlyVisible returned Some(Invisible).
C15_Witness ==
  /\ curs.supported = {0, 1, 2}
  /\ curs.asked = "HighlyVisible"
  /\ curs.ret = "Invisible"
  /\ curs.vis = 2

\* ---------------------------------------------------------------- C18
\* C18: after every successful set_input_mode(m), from every prior input
\* state, the provider's flags are the ones documented for m: Cooked is
\* buffered with processing, Character unbuffered with processing,
\* RawCooked buffered without processing, RawCharacter unbuffered without
\* processing.
C18_ModeAsDocumented ==
  (tty.mode # "none" /\ tty.ret)
    => [buffered |-> tty.buffered, processing |-> tty.processing]
         = input_mode_doc(tty.mode)

\* ---------------------------------------------------------------- C13
\* C13: auto-resize.  A handle that initialize_system has just returned has
\* auto_resize true.  A get_input that receives KeyResize while auto_resize
\* is true calls resize(0, 0) before it returns, and the window takes the
\* terminal's size; with auto_resize false, or any other input or none, it
\* makes no resize call and the window is left alone.  In every case the
\* provider's result is returned as it is.
C13_AutoResize ==
  /\ [](inp.event # "none"
          => /\ inp.ret = inp.event
             /\ inp.resized <=> (inp.auto /\ inp.event = "KeyResize"))
  /\ [][/\ \A t \in Threads :
             (~handle[t].live /\ handle'[t].live) => handle'[t].auto_resize
        /\ (inp' # inp /\ ~inp'.resized) => scr' = scr
        /\ (inp' # inp /\ inp'.resized) => inp'.auto = handle[MainThread].auto_resize
       ]_vars

\* KeyResize came in with auto_resize on: the resize call was made and
\* KeyResize was returned.
C13_Witness ==
  /\ inp = [event |-> "KeyResize", auto |-> TRUE, resized |-> TRUE,
            ret |-> "KeyResize"]
  /\ scr.rows = 2

\* ---------------------------------------------------------------- C14
\* C14: up-front pair registration.  On a terminal with colour support
\* every handle is returned with each of the 64 ids 1 + 8*fg + bg
\* registered with its (fg, bg), so that every set_color_pair that reaches
\* the provider names a registered id with the colours the pair was built
\* from.  Without colour support no pair is registered, is_color_terminal
\* is false and set_color_pair makes no provider call.
C14_PairsRegistered ==
  LET support == term.has_colors /\ to_bool(term.start_color)
      registered(fg, bg) ==
        /\ ColorPair_new(fg, bg) \in DOMAIN pairs
        /\ pairs[ColorPair_new(fg, bg)] = <<index(fg), index(bg)>>
  IN /\ \A t \in Threads :
          (handle[t].live /\ support)
            => /\ handle[t].color_support
               /\ \A fg \in Color, bg \in Color : registered(fg, bg)
     /\ (attr.fn = "set_color_pair" /\ attr.called)
          => registered(attr.fg, attr.bg)
     /\ ~support
          => /\ DOMAIN pairs = {}
             /\ attr.fn = "is_color_terminal" => ~attr.ret
             /\ attr.fn = "set_color_pair" => ~attr.called

\* ---------------------------------------------------------------- C16
\* C16: the guard never gets stuck.  Whenever no handle exists and no
\* initialize_system call is in progress the flag is false, and an
\* initialize_system call that tries the flag in such a state wins it; this
\* includes the states after a call that ended in a failed debug assertion.
C16_GuardNeverStuck ==
  /\ []((/\ ~aborted
         /\ ~HandleLive
         /\ \A t \in Threads : pc[t] \in {"idle", "map"})
        => ~curses_is_on)
  /\ [][\A t \in Threads :
          (/\ pc[t] = "cas" /\ pc'[t] # "cas"
           /\ ~aborted
           /\ ~HandleLive
           /\ \A u \in Threads \ {t} : pc[u] \in {"idle", "map"})
          => pc'[t] = "initscr"]_vars

\* ---------------------------------------------------------------- C17
\* C17: the colour-limit assertions fail only on a terminal below the
\* scheme's needs.  With at least 64 pairs and at least 8 colours reported,
\* counts beyond the i16 range included, and in every build without debug
\* assertions, the registration loop runs to its end and the handle is
\* returned.
C17_AssertsOnlyBelowNeed ==
  [][\A t \in Threads :
       (/\ pc[t] = "pairs" /\ pc'[t] # "pairs"
        /\ \/ ~debug_assertions
           \/ term.COLOR_PAIRS >= 64 /\ term.COLORS >= 8)
       => pc'[t] = "some"]_vars

====
